---------------------------- MODULE Spec2Model ----------------------------
(***************************************************************************)
(* A model of immich-gpx (src/src/main.rs): one run of `main`.             *)
(*                                                                         *)
(* The run loads every track segment of the gpx files given on the command *)
(* line, sorts each segment by time, asks the Immich server for one page   *)
(* of assets, and for every asset that passes the filter looks up the      *)
(* first segment covering its capture time, computes a position from two   *)
(* points of that segment, prints a line and (unless --dry-run) sends a    *)
(* PUT request.                                                            *)
(*                                                                         *)
(* Instants are integer ticks, TicksPerSec ticks to the second.            *)
(* Coordinates are integers; a computed coordinate is an exact fraction    *)
(* (f64 rounding is not modelled).                                         *)
(***************************************************************************)
EXTENDS Integers, Sequences, FiniteSets

VARIABLES
    pc,             \* where `main` is: "load", "search", "loop", or an exit
    gpx_files,      \* args.gpx_files: the content of each file, in argument order
    dry_run,        \* args.dry_run
    owner,          \* args.owner (None when the option is not given)
    location_data,  \* the loaded segments (main.rs:52), sorted (main.rs:77)
    images,         \* images.assets.items, the page the server returned
    idx,            \* how many items the `for` loop has taken from that page
    track,          \* the loop's `track`: the segment found for the last item
                    \* that passed the filter (None before, or when none matched)
    stdout,         \* the lines printed, in order
    requests        \* the HTTP requests sent, in order, each with its outcome

vars == <<pc, gpx_files, dry_run, owner, location_data, images, idx, track,
          stdout, requests>>

----------------------------------------------------------------------------
(* Bounds of the inputs.                                                   *)

MaxFiles == 2

MaxSegs == 2

MaxPoints == 2

MaxTime == 2

MaxImages == 2

TicksPerSec == 1

----------------------------------------------------------------------------
(* Values.                                                                 *)

\* Option: None, or Some(v)
None == <<>>

Some(v) == <<v>>

\* Result: Ok(v), or Err (anyhow's error, whatever its text)
Ok(v) == [ok |-> TRUE, val |-> v]

Err == [ok |-> FALSE]

\* a gpx::Time: the instant the <time> element names; one that is not `valid`
\* is a time on which the gpx reader or convert_time returns Err
Time(instant) == [valid |-> TRUE, instant |-> instant]

BadTime == [valid |-> FALSE, instant |-> 0]

Instants == 0..MaxTime

\* a point's `time`: Option<gpx::Time>
RawTimes == {None, Some(BadTime)} \cup {Some(Time(t)) : t \in Instants}

Owners == {"u1", "u2"}

SeqsUpTo(S, n) == UNION {[1..k -> S] : k \in 0..n}

RECURSIVE Sum(_)
Sum(s) == IF s = <<>> THEN 0 ELSE Head(s) + Sum(Tail(s))

RECURSIVE Concat(_)
Concat(ss) == IF ss = <<>> THEN <<>> ELSE Head(ss) \o Concat(Tail(ss))

RECURSIVE GCD(_, _)
GCD(m, n) == IF n = 0 THEN m ELSE GCD(n, m % n)

Abs(n) == IF n < 0 THEN -n ELSE n

\* the exact value num / den (den > 0) in lowest terms
Frac(num, den) ==
    LET g == GCD(Abs(num), den)
    IN  [num |-> num \div g, den |-> den \div g]

----------------------------------------------------------------------------
(* The command line's track files.  A file is the sequence of the segments *)
(* of its tracks in document order; a segment is its sequence of points;   *)
(* a point has an optional time and a position.  The k-th point of the     *)
(* whole input lies at longitude 10k, latitude 10k + 5, so that every      *)
(* point is told from every other by its position.                         *)

\* the number of points of each segment of each file
Shapes ==
    {sh \in SeqsUpTo({file \in SeqsUpTo(0..MaxPoints, MaxSegs) :
                            Sum(file) <= MaxPoints}, MaxFiles) :
        /\ Sum([f \in 1..Len(sh) |-> Len(sh[f])]) <= MaxSegs
        /\ Sum([f \in 1..Len(sh) |-> Sum(sh[f])]) <= MaxPoints}

NumPoints(sh) == Sum([f \in 1..Len(sh) |-> Sum(sh[f])])

\* the points of the input that come before segment s of file f
PointsBefore(sh, f, s) ==
    Sum([g \in 1..(f - 1) |-> Sum(sh[g])]) + Sum(SubSeq(sh[f], 1, s - 1))

Waypoint(k, time) == [time |-> time, x |-> 10 * k, y |-> 10 * k + 5]

GpxFiles(sh, times) ==
    [f \in 1..Len(sh) |->
        [s \in 1..Len(sh[f]) |->
            [p \in 1..sh[f][s] |->
                Waypoint(PointsBefore(sh, f, s) + p,
                         times[PointsBefore(sh, f, s) + p])]]]

----------------------------------------------------------------------------
(* Track loading, main.rs:52-79.                                           *)

\* convert_time had it taken a time that does not convert for the epoch
ConvertTimeOrEpoch(time) == Ok(time.instant)

\* convert_time: the time re-read as a UTC instant, or Err
convert_time(time) == IF time.valid THEN Ok(time.instant) ELSE Err

\* one segment's points: those without a time dropped (filter_map's `?`),
\* the others as (t, (x, y)); Err when a time does not convert
RECURSIVE SegmentPoints(_)
SegmentPoints(points) ==
    IF points = <<>> THEN Ok(<<>>)
    ELSE LET p == Head(points)
             rest == SegmentPoints(Tail(points))
         IN  IF p.time = None THEN rest
             ELSE LET t == convert_time(p.time[1])
                  IN  IF ~t.ok \/ ~rest.ok THEN Err
                      ELSE Ok(<<[t |-> t.val, x |-> p.x, y |-> p.y]>> \o rest.val)

\* every segment of every file, files in argument order; Err when one fails
ReadTracks(files) ==
    LET segments == Concat(files)
        read == [i \in 1..Len(segments) |-> SegmentPoints(segments[i])]
    IN  IF \E i \in 1..Len(read) : ~read[i].ok THEN Err
        ELSE Ok([i \in 1..Len(read) |-> read[i].val])

IsSorted(seg) == \A i \in 1..(Len(seg) - 1) : seg[i].t <= seg[i + 1].t

\* sort_unstable_by_key(|p| p.0): the orders the sort may leave the segment
\* in (points of equal time in any order)
SortedOrders(seg) ==
    {sorted \in {[i \in 1..Len(seg) |-> seg[perm[i]]] :
                    perm \in {q \in [1..Len(seg) -> 1..Len(seg)] :
                                \A i, j \in 1..Len(seg) : i # j => q[i] # q[j]}} :
        IsSorted(sorted)}

SortedData(data) ==
    {sorted \in [1..Len(data) -> UNION {SortedOrders(data[i]) : i \in 1..Len(data)}] :
        \A i \in 1..Len(data) : sorted[i] \in SortedOrders(data[i])}

----------------------------------------------------------------------------
(* The page of assets the server returns, main.rs:171-195.                 *)

\* an AssetResponseDto with its ExifResponseDto; existing coordinates are
\* Option<f64>
Asset(id, owner_id, date_time_original, latitude, longitude) ==
    [id |-> id, owner_id |-> owner_id, date_time_original |-> date_time_original,
     latitude |-> latitude, longitude |-> longitude]

\* pages of at most n items, the i-th item with id i
Pages(n, instants, coords) ==
    UNION {{[i \in 1..k |-> Asset(i, o[i], d[i], c[i][1], c[i][2])] :
                o \in [1..k -> Owners], d \in [1..k -> instants],
                c \in [1..k -> coords \X coords]} :
            k \in 0..n}

----------------------------------------------------------------------------
(* The loop over the page, main.rs:107-158.                                *)

\* the filter had it looked at the latitude alone
KeepLatitudeOnly(img, own) ==
    /\ (own = None \/ own[1] = img.owner_id)
    /\ img.latitude = None

\* the filter had it asked for a missing latitude or a missing longitude
KeepEitherMissing(img, own) ==
    /\ (own = None \/ own[1] = img.owner_id)
    /\ (img.latitude = None \/ img.longitude = None)

\* the filter closure of main.rs:107-111
Keep(img, own) ==
    /\ (own = None \/ own[1] = img.owner_id)
    /\ img.latitude = None
    /\ img.longitude = None

\* the search had it not compared the capture time with the last point
RECURSIVE FindTrackOpenEnded(_, _)
FindTrackOpenEnded(data, date_time_original) ==
    IF data = <<>> THEN None
    ELSE LET tr == Head(data)
         IN  IF tr # <<>> /\ date_time_original >= tr[1].t
             THEN Some(tr)
             ELSE FindTrackOpenEnded(Tail(data), date_time_original)

\* the search had it kept the last enclosing segment instead of the first
RECURSIVE FindLastTrack(_, _)
FindLastTrack(data, date_time_original) ==
    IF data = <<>> THEN None
    ELSE LET tr == data[Len(data)]
         IN  IF /\ tr # <<>>
                /\ date_time_original >= tr[1].t
                /\ date_time_original <= tr[Len(tr)].t
             THEN Some(tr)
             ELSE FindLastTrack(SubSeq(data, 1, Len(data) - 1), date_time_original)

\* main.rs:113-119: the first non-empty segment whose first and last points
\* enclose the capture time
RECURSIVE FindTrack(_, _)
FindTrack(data, date_time_original) ==
    IF data = <<>> THEN None
    ELSE LET tr == Head(data)
         IN  IF /\ tr # <<>>
                /\ date_time_original >= tr[1].t
                /\ date_time_original <= tr[Len(tr)].t
             THEN Some(tr)
             ELSE FindTrack(Tail(data), date_time_original)

\* Iterator::skip_while(|p| p.0 < date_time_original)
RECURSIVE SkipWhileBefore(_, _)
SkipWhileBefore(points, date_time_original) ==
    IF points # <<>> /\ Head(points).t < date_time_original
    THEN SkipWhileBefore(Tail(points), date_time_original)
    ELSE points

\* Iterator::take(n)
Take(points, n) == SubSeq(points, 1, IF Len(points) < n THEN Len(points) ELSE n)

\* the two closest points had the last point not been chained once more
ClosestPositionsUnchained(tr, date_time_original) ==
    LET taken == Take(SkipWhileBefore(tr, date_time_original), 2)
    IN  IF Len(taken) = 2 THEN Some(taken) ELSE None

\* main.rs:125-131: the segment with its last point once more, the points
\* before the capture time skipped, the next two taken; collect_array gives
\* None unless there are exactly two
ClosestPositions(tr, date_time_original) ==
    LET taken == Take(SkipWhileBefore(tr \o <<tr[Len(tr)]>>, date_time_original), 2)
    IN  IF Len(taken) = 2 THEN Some(taken) ELSE None

\* TimeDelta::num_seconds: whole seconds, rounded towards zero
NumSeconds(ticks) ==
    IF ticks >= 0 THEN ticks \div TicksPerSec ELSE -((-ticks) \div TicksPerSec)

\* i64::max(1)
Max1(n) == IF n > 1 THEN n ELSE 1

\* main.rs:135-140: the position computed from a, b and the capture time
Lerp(a, b, date_time_original) ==
    LET points_dt == Max1(NumSeconds(b.t - a.t))
        capture_dt == Max1(NumSeconds(date_time_original - a.t))
    IN  [longitude |-> Frac(a.x * points_dt + (b.x - a.x) * capture_dt, points_dt),
         latitude |-> Frac(a.y * points_dt + (b.y - a.y) * capture_dt, points_dt)]

\* the update had it been sent whatever --dry-run says
SendsUpdateAlways(dry) == TRUE

\* main.rs:147: the update is sent unless --dry-run
SendsUpdate(dry) == ~dry

\* the run had it gone on after a failed request
PropagateNever(ok) == "loop"

\* the `?` of main.rs:103 and main.rs:156: an Err leaves main
Propagate(ok) == IF ok THEN "loop" ELSE "error"

----------------------------------------------------------------------------
(* The run.                                                                *)

InitWith(shapes, times, dryRuns, owners) ==
    /\ pc = "load"
    /\ \E sh \in shapes : \E ts \in [1..NumPoints(sh) -> times] :
            gpx_files = GpxFiles(sh, ts)
    /\ dry_run \in dryRuns
    /\ owner \in owners
    /\ location_data = <<>>
    /\ images = <<>>
    /\ idx = 0
    /\ track = None
    /\ stdout = <<>>
    /\ requests = <<>>

\* main.rs:52-79: read every file, then sort every segment
LoadTracks ==
    /\ pc = "load"
    /\ LET read == ReadTracks(gpx_files)
       IN  IF ~read.ok
           THEN /\ pc' = "error"
                /\ UNCHANGED location_data
           ELSE /\ pc' = "search"
                /\ location_data' \in SortedData(read.val)
    /\ UNCHANGED <<gpx_files, dry_run, owner, images, idx, track, stdout, requests>>

\* main.rs:92-105: POST /search/metadata; the request fails, or the server
\* answers with one of `pages`
SearchAssets(pages) ==
    /\ pc = "search"
    /\ \E ok \in BOOLEAN :
        /\ requests' = Append(requests, [method |-> "POST", ok |-> ok])
        /\ pc' = Propagate(ok)
        /\ IF ok THEN images' \in pages ELSE UNCHANGED images
    /\ UNCHANGED <<gpx_files, dry_run, owner, location_data, idx, track, stdout>>

\* main.rs:107-158: the loop takes the next item of the page
ProcessImage ==
    /\ pc = "loop"
    /\ idx < Len(images)
    /\ idx' = idx + 1
    /\ LET image == images[idx + 1]
       IN  IF ~Keep(image, owner)
           THEN UNCHANGED <<pc, track, stdout, requests>>
           ELSE LET found == FindTrack(location_data, image.date_time_original)
                IN  /\ track' = found
                    /\ IF found = None
                       THEN UNCHANGED <<pc, stdout, requests>>
                       ELSE LET ab == ClosestPositions(found[1], image.date_time_original)
                            IN  IF ab = None
                                THEN /\ pc' = "panic"
                                     /\ UNCHANGED <<stdout, requests>>
                                ELSE LET at == Lerp(ab[1][1], ab[1][2],
                                                    image.date_time_original)
                                     IN  /\ stdout' = Append(stdout,
                                                [id |-> image.id,
                                                 latitude |-> at.latitude,
                                                 longitude |-> at.longitude])
                                         /\ IF SendsUpdate(dry_run)
                                            THEN \E ok \in BOOLEAN :
                                                    /\ requests' = Append(requests,
                                                        [method |-> "PUT",
                                                         id |-> image.id,
                                                         latitude |-> at.latitude,
                                                         longitude |-> at.longitude,
                                                         ok |-> ok])
                                                    /\ pc' = Propagate(ok)
                                            ELSE UNCHANGED <<pc, requests>>
    /\ UNCHANGED <<gpx_files, dry_run, owner, location_data, images>>

\* main.rs:160: the page is exhausted, main returns Ok(())
Finish ==
    /\ pc = "loop"
    /\ idx = Len(images)
    /\ pc' = "done"
    /\ UNCHANGED <<gpx_files, dry_run, owner, location_data, images, idx, track,
                   stdout, requests>>

----------------------------------------------------------------------------
(* Spec: a run over few tracks and every page of up to MaxImages assets.   *)

\* an existing coordinate of an asset
Coords == {None, Some(7)}

\* no file, or one file of one segment of two points
FewShapes == {<<>>, << <<2>> >>}

\* a point of these tracks has no time, or is taken at tick 1
FewTimes == {None, Some(Time(1))}

ManyPages == Pages(MaxImages, {0, 1}, Coords)

Init == InitWith(FewShapes, FewTimes, BOOLEAN, {None, Some("u1")})

Next == LoadTracks \/ SearchAssets(ManyPages) \/ ProcessImage \/ Finish

Spec == Init /\ [][Next]_vars

(* SpecTracks: a run over every input of up to MaxFiles files, MaxSegs     *)
(* segments and MaxPoints points, and a page of two assets without         *)
(* coordinates, the first taken at any instant, the second at tick 0.      *)

FewPages ==
    {<<Asset(1, "u1", d, None, None), Asset(2, "u1", 0, None, None)>> :
        d \in Instants}

InitTracks == InitWith(Shapes, RawTimes, {FALSE}, {None})

NextTracks == LoadTracks \/ SearchAssets(FewPages) \/ ProcessImage \/ Finish

SpecTracks == InitTracks /\ [][NextTracks]_vars

----------------------------------------------------------------------------
(* Vocabulary of the properties.                                           *)

\* the segment's first and last points enclose the instant
Covers(seg, instant) ==
    /\ seg # <<>>
    /\ seg[1].t <= instant
    /\ instant <= seg[Len(seg)].t

\* the instant lies outside every non-empty loaded segment
Uncovered(instant) ==
    \A k \in 1..Len(location_data) : ~Covers(location_data[k], instant)

\* the owner option is absent or names the asset's owner
OwnerPasses(img) == owner = None \/ owner = Some(img.owner_id)

\* the asset has neither a latitude nor a longitude
NoPosition(img) == img.latitude = None /\ img.longitude = None

\* the asset has exactly one of latitude and longitude
HalfPosition(img) == (img.latitude = None) # (img.longitude = None)

HasLine(id) == \E k \in 1..Len(stdout) : stdout[k].id = id

HasUpdate(id) ==
    \E k \in 1..Len(requests) : requests[k].method = "PUT" /\ requests[k].id = id

\* the loop body ran to its end, or to the failed update, for images[idx]
BodyRan == idx > 0 /\ pc \in {"loop", "done", "error"}

\* the value of the fraction is the integer n
IsInteger(frac, n) == frac.num = n * frac.den

\* the fraction is p + (q - p) * (c - tp) / (tq - tp)
IsLinear(frac, p, q, tp, tq, c) ==
    frac.num * (tq - tp) = frac.den * (p * (tq - tp) + (q - p) * (c - tp))

----------------------------------------------------------------------------
(* C1, C2: the computed position.                                          *)

\* C1: when the capture time of the asset just handled lies strictly between
\* the times of two consecutive points p, q of the selected segment, the line
\* printed for it gives, for longitude and latitude each,
\* p + (q - p) * (capture - p.t) / (q.t - p.t).
C1_LinearBetweenNeighbours ==
    (BodyRan /\ OwnerPasses(images[idx]) /\ NoPosition(images[idx]) /\ track # None) =>
        LET tr == track[1]
            c == images[idx].date_time_original
            line == stdout[Len(stdout)]
        IN  \A k \in 1..(Len(tr) - 1) :
                (tr[k].t < c /\ c < tr[k + 1].t) =>
                    /\ line.id = images[idx].id
                    /\ IsLinear(line.longitude, tr[k].x, tr[k + 1].x,
                                tr[k].t, tr[k + 1].t, c)
                    /\ IsLinear(line.latitude, tr[k].y, tr[k + 1].y,
                                tr[k].t, tr[k + 1].t, c)

\* C2: when the capture time of the asset just handled equals the time of the
\* first point, or of the last point, of the selected segment, the line
\* printed for it gives exactly that point's longitude and latitude.  (Stated
\* for segments whose points have different times, where the first and the
\* last point are the only ones at their instants.)
C2_BoundaryIsRecordedPoint ==
    (BodyRan /\ OwnerPasses(images[idx]) /\ NoPosition(images[idx]) /\ track # None) =>
        LET tr == track[1]
            c == images[idx].date_time_original
            line == stdout[Len(stdout)]
            first == tr[1]
            last == tr[Len(tr)]
        IN  (\A k \in 1..(Len(tr) - 1) : tr[k].t < tr[k + 1].t) =>
                /\ c = first.t =>
                    /\ IsInteger(line.longitude, first.x)
                    /\ IsInteger(line.latitude, first.y)
                /\ c = last.t =>
                    /\ IsInteger(line.longitude, last.x)
                    /\ IsInteger(line.latitude, last.y)

----------------------------------------------------------------------------
(* C3, C4: the filter.                                                     *)

\* C3: a line or an update exists only for an asset that passes the owner
\* option and has neither latitude nor longitude, and every such asset the
\* loop has taken and some segment covers has its line.
C3_FilterDecides ==
    \A i \in 1..Len(images) :
        /\ (HasLine(i) \/ HasUpdate(i)) =>
                (OwnerPasses(images[i]) /\ NoPosition(images[i]))
        /\ (/\ i <= idx
            /\ OwnerPasses(images[i])
            /\ NoPosition(images[i])
            /\ ~Uncovered(images[i].date_time_original)) => HasLine(i)

\* a finished run that skipped a covered asset with a latitude only and
\* updated another asset
C3_Witness ==
    /\ pc = "done"
    /\ \E i, j \in 1..Len(images) :
        /\ images[i].latitude # None
        /\ images[i].longitude = None
        /\ OwnerPasses(images[i])
        /\ ~Uncovered(images[i].date_time_original)
        /\ ~HasLine(i)
        /\ HasLine(j)
        /\ HasUpdate(j)

\* C4 as stated: an asset with exactly one of latitude and longitude that
\* passes the owner option and is covered by a segment gets its line and,
\* outside dry-run, its update.
C4_HalfPositionKept ==
    \A i \in 1..idx :
        (/\ HalfPosition(images[i])
         /\ OwnerPasses(images[i])
         /\ ~Uncovered(images[i].date_time_original)
         /\ pc \in {"loop", "done"}) =>
            /\ HasLine(i)
            /\ ~dry_run => HasUpdate(i)

\* C4, amended: an asset with exactly one of latitude and longitude never
\* gets a line or an update.
C4_HalfPositionSkipped ==
    \A i \in 1..Len(images) :
        HalfPosition(images[i]) => (~HasLine(i) /\ ~HasUpdate(i))

\* a finished run, not dry, over a covered asset with a longitude only
C4_Witness ==
    /\ pc = "done"
    /\ ~dry_run
    /\ \E i \in 1..Len(images) :
        /\ images[i].latitude = None
        /\ images[i].longitude # None
        /\ OwnerPasses(images[i])
        /\ ~Uncovered(images[i].date_time_original)

----------------------------------------------------------------------------
(* C5: an asset no segment covers.                                         *)

\* C5: when the next asset's capture time lies outside every non-empty
\* segment, the step that takes it prints nothing, sends nothing, and leaves
\* the loop running at the asset after it.
C5_UncoveredSkipped ==
    [][(/\ pc = "loop"
        /\ idx < Len(images)
        /\ Uncovered(images[idx + 1].date_time_original)) =>
            /\ pc' = "loop"
            /\ idx' = idx + 1
            /\ stdout' = stdout
            /\ requests' = requests]_vars

\* the loop stands at the second asset after an asset that lies outside the
\* only non-empty segment
C5_Witness ==
    /\ pc = "loop"
    /\ idx = 1
    /\ Len(images) = 2
    /\ OwnerPasses(images[1])
    /\ NoPosition(images[1])
    /\ Uncovered(images[1].date_time_original)
    /\ \E k \in 1..Len(location_data) : location_data[k] # <<>>
    /\ stdout = <<>>
    /\ Len(requests) = 1

----------------------------------------------------------------------------
(* C6: a failed update.                                                    *)

----------------------------------------------------------------------------
(* C7: dry-run.                                                            *)

\* the line of asset i when it is kept and covered, else nothing
LineOf(i) ==
    LET img == images[i]
        c == img.date_time_original
    IN  IF OwnerPasses(img) /\ NoPosition(img) /\ ~Uncovered(c)
        THEN LET ab == ClosestPositions(FindTrack(location_data, c)[1], c)[1]
                 at == Lerp(ab[1], ab[2], c)
             IN  <<[id |-> img.id, latitude |-> at.latitude,
                    longitude |-> at.longitude]>>
        ELSE <<>>

\* the lines of the first n assets, in the page's order
RECURSIVE LinesOf(_)
LinesOf(n) == IF n = 0 THEN <<>> ELSE LinesOf(n - 1) \o LineOf(n)

\* C7: a dry run sends no update, and a run that finishes has printed the
\* lines of the kept and covered assets in the page's order, dry or not.
C7_DryRunPrintsSame ==
    /\ dry_run => \A k \in 1..Len(requests) : requests[k].method # "PUT"
    /\ pc = "done" => stdout = LinesOf(Len(images))
    /\ (pc = "done" /\ ~dry_run) =>
            Len(requests) = 1 + Len(stdout)

\* a finished dry run that printed two lines and sent only the search
C7_Witness ==
    /\ pc = "done"
    /\ dry_run
    /\ Len(stdout) = 2
    /\ Len(requests) = 1

----------------------------------------------------------------------------
(* C8: the pool of segments and the segment chosen.                        *)

\* the segments of the files before file f
SegmentsBefore(f) == Sum([g \in 1..(f - 1) |-> Len(gpx_files[g])])

\* the timed points of a segment of a file, as loaded
TimedPoints(points) ==
    {[t |-> points[p].time[1].instant, x |-> points[p].x, y |-> points[p].y] :
        p \in {q \in 1..Len(points) : points[q].time # None}}

Loaded == pc \in {"search", "loop", "done", "panic"} \/ requests # <<>>

----------------------------------------------------------------------------
(* C9: the two closest points.                                             *)

\* C9: the run never panics, and for every loaded segment and every instant
\* the segment covers, the skip-and-take over the segment with its last
\* point once more yields two points.
C9_TwoPointsAlways ==
    /\ pc # "panic"
    /\ \A k \in 1..Len(location_data) : \A c \in Instants :
        Covers(location_data[k], c) =>
            ClosestPositions(location_data[k], c) # None

\* a line was printed from a segment of two points of equal time, after the
\* load dropped nothing
C9_Witness ==
    /\ BodyRan
    /\ track # None
    /\ Len(track[1]) = 2
    /\ track[1][1].t = track[1][2].t
    /\ stdout # <<>>

----------------------------------------------------------------------------
(* C10: a time that does not parse.                                        *)

HasBadTime ==
    \E f \in 1..Len(gpx_files) : \E s \in 1..Len(gpx_files[f]) :
        \E p \in 1..Len(gpx_files[f][s]) : gpx_files[f][s][p].time = Some(BadTime)

=============================================================================
